---- MODULE Spec2Model ----
\* HandsOff (docs/app.js): the touch state machine, the alarm controller, the
\* frame coordinator and the start/stop lifecycle of the in-browser monitor.
\*
\* Units. Time is counted in whole seconds (Date.now() / 1000). Coordinates are
\* hundredths of the frame (0.08 is 8); the half widths of the face box are kept
\* exact by comparing doubled quantities.
\*
\* A nullable field of the program is the empty sequence (null) or a
\* one-element sequence holding its value.
EXTENDS Integers, Sequences, FiniteSets

VARIABLES
    \* settings (app.js 23-25)
    touchThreshold, proximityThreshold, enableSound,
    \* state (app.js 28-32)
    isRunning, touchStartTime, isTouching, alertActive, camera,
    \* MediaPipe (app.js 35-38)
    hands, faceDetection, lastHandResults, lastFaceResults,
    \* audio (app.js 41-44)
    audioContext, alarmOscillator, alarmGain, alarmInterval,
    \* DOM elements written by the handlers
    overlayActive, statusText, statusDotTouching, durationText,
    startBtnDisabled, stopBtnDisabled, srcObject,
    \* browser: clock, live interval timers, gain nodes connected to the
    \* destination, start() invocations suspended at an await, objects that
    \* were overwritten while still active
    now, timers, gains, pendingGetUserMedia, pendingPlay, orphaned,
    \* browser: whether an AudioContext can be constructed on this page
    audioAvailable,
    \* observation of the last handler: its name, the touchingNow it computed,
    \* whether it played a tone, whether an exception left it, the number of
    \* startAlarm() invocations of the current touch session, and (for an
    \* evaluation, a sound toggle and a stop) what it started from
    lastOp, touchingNowSeen, tone, uncaught, startAlarmCalls, before,
    \* observation of a direct call of isHandNearFace: its arguments and what
    \* it returned (null when the last handler was not such a call)
    probe,
    \* which of start() and stop() was invoked last ("none": neither yet)
    lastInvoked

vars == << touchThreshold, proximityThreshold, enableSound,
           isRunning, touchStartTime, isTouching, alertActive, camera,
           hands, faceDetection, lastHandResults, lastFaceResults,
           audioContext, alarmOscillator, alarmGain, alarmInterval,
           overlayActive, statusText, statusDotTouching, durationText,
           startBtnDisabled, stopBtnDisabled, srcObject,
           now, timers, gains, pendingGetUserMedia, pendingPlay, orphaned,
           audioAvailable, lastOp, touchingNowSeen, tone, uncaught, startAlarmCalls,
           before, probe, lastInvoked >>

--------------------------------------------------------------------------
\* Bounds of the model.

\* The clock runs from 0 to MaxTime seconds.
MaxTime == 2

\* Interval timers (and gain nodes) that can be live at once.
MaxAlarms == 2

\* start() invocations that can be suspended at an await at once.
MaxPending == 2

--------------------------------------------------------------------------
\* Values.

Null == << >>

Some(v) == << v >>

Val(o) == o[1]

\* this.touchThreshold = 1.0 (seconds)
DefaultTouchThreshold == 1

\* Values the threshold slider can deliver (parseFloat of the slider value).
ThresholdValues == {1, 2}

\* this.proximityThreshold = 0.08
DefaultProximityThreshold == 8

\* const thresholds = [0.12, 0.08, 0.05], indexed by value - 1
SensitivityThresholds == << 12, 8, 5 >>

\* const keyPoints = [0, 4, 8, 12, 16, 20]
KeyPoints == << 0, 4, 8, 12, 16, 20 >>

\* The highest landmark index drawHandLandmarks reads (connections, 197-204).
LastLandmark == 20

Pt(x, y) == [x |-> x, y |-> y]

FarPoint == Pt(95, 95)

\* A hand of n landmarks, all far from every face, except landmark k at p.
HandWith(n, k, p) == [i \in 0..(n - 1) |-> IF i = k THEN p ELSE FarPoint]

\* Face A: the box [40,60] x [40,60].
FaceA == [xCenter |-> 50, yCenter |-> 50, width |-> 20, height |-> 20]

\* The index fingertip 6 to the right of face A: inside its expanded box with
\* the margins 8 and 12, outside it with the margin 5.
TipNearA == HandWith(21, 8, Pt(66, 50))

\* A landmark set of 5 points (fewer than 21), its wrist inside face A.
ShortHand == HandWith(5, 0, Pt(50, 50))

\* Face B: the box [15,25] x [15,25], up and left of face A.
FaceB == [xCenter |-> 20, yCenter |-> 20, width |-> 10, height |-> 10]

\* The index fingertip in the middle of face B, far from face A.
TipInB == HandWith(21, 8, Pt(20, 20))

\* results.multiHandLandmarks of the hand results that can arrive.
HandArrivals == { << >>, << TipNearA >>, << ShortHand >> }

\* results.detections of the face results that can arrive.
FaceArrivals == { << >>, << FaceA >> }

\* Values of this.proximityThreshold that isHandNearFace is evaluated with:
\* the three of the sensitivity slider, and 0 (no expansion of the face box).
Margins == {0, 5, 8, 12}

\* Points for the arguments of a direct call of isHandNearFace: on the right
\* edge of face A, one hundredth outside that edge, on the lower edge of face
\* A expanded by 12, in the middle of face A, in the middle of face B.
ProbePoints == { Pt(60, 45), Pt(61, 50), Pt(50, 72), Pt(50, 50), Pt(20, 20) }

\* Landmark sets for a direct call: 21 landmarks with the wrist (0), a joint
\* of the index finger (6) or the tip of the little finger (20) at a probe
\* point and every other landmark far away; and the set of 5 landmarks.
ProbeHands ==
    { HandWith(21, k, p) : k \in {0, 6, 20}, p \in ProbePoints } \cup { ShortHand }

ProbeFaces == { FaceA, FaceB }

\* Hand and face results that arrive where the geometry is examined: up to
\* two hands, up to two faces, in either order.
GeometryHandArrivals ==
    { << >>, << TipNearA >>, << TipInB >>, << TipInB, TipNearA >> }

GeometryFaceArrivals ==
    { << >>, << FaceA >>, << FaceA, FaceB >>, << FaceB, FaceA >> }

\* The constructor of initMediaPipe that throws ("none": none does).
SetupFailures == {"none", "Hands", "FaceDetection", "Camera"}

--------------------------------------------------------------------------
\* Geometry and frame evaluation (pure).

\* isHandNearFace's loop over keyPoints from position k on: "true" at the first
\* key point inside the expanded box, "throw" where handLandmarks[idx] is
\* undefined (landmark.x is a TypeError), "false" after the last key point.
RECURSIVE KeyPointScan(_, _, _, _)
KeyPointScan(handLandmarks, faceBbox, margin, k) ==
    IF k > Len(KeyPoints) THEN "false"
    ELSE LET idx == KeyPoints[k]
         IN  IF idx \notin DOMAIN handLandmarks THEN "throw"
             ELSE LET landmark == handLandmarks[idx]
                  IN  IF /\ 2 * landmark.x >= 2 * faceBbox.xCenter - faceBbox.width - 2 * margin
                         /\ 2 * landmark.x <= 2 * faceBbox.xCenter + faceBbox.width + 2 * margin
                         /\ 2 * landmark.y >= 2 * faceBbox.yCenter - faceBbox.height - 2 * margin
                         /\ 2 * landmark.y <= 2 * faceBbox.yCenter + faceBbox.height + 2 * margin
                      THEN "true"
                      ELSE KeyPointScan(handLandmarks, faceBbox, margin, k + 1)

\* isHandNearFace that tests every landmark instead of the six key points.
IsHandNearFaceAnyLandmark(handLandmarks, faceBbox, margin) ==
    IF \E i \in DOMAIN handLandmarks :
          /\ 2 * handLandmarks[i].x >= 2 * faceBbox.xCenter - faceBbox.width - 2 * margin
          /\ 2 * handLandmarks[i].x <= 2 * faceBbox.xCenter + faceBbox.width + 2 * margin
          /\ 2 * handLandmarks[i].y >= 2 * faceBbox.yCenter - faceBbox.height - 2 * margin
          /\ 2 * handLandmarks[i].y <= 2 * faceBbox.yCenter + faceBbox.height + 2 * margin
    THEN "true" ELSE "false"

\* isHandNearFace(handLandmarks, faceBbox), margin = this.proximityThreshold.
IsHandNearFace(handLandmarks, faceBbox, margin) ==
    KeyPointScan(handLandmarks, faceBbox, margin, 1)

\* drawHandLandmarks reads landmarks[0..20] (startPoint.x, endPoint.x): it
\* throws a TypeError when one of them is undefined.
DrawHandLandmarksThrows(landmarks) ==
    \E i \in 0..LastLandmark : i \notin DOMAIN landmarks

\* processFrame's inner loop (178-186) over multiHandLandmarks from hand h on,
\* for one detection: "throw", or the value of touchingNow after the loop.
RECURSIVE HandLoop(_, _, _, _, _)
HandLoop(multiHandLandmarks, bbox, margin, h, touchingNow) ==
    IF h > Len(multiHandLandmarks) THEN (IF touchingNow THEN "true" ELSE "false")
    ELSE LET landmarks == multiHandLandmarks[h]
         IN  IF DrawHandLandmarksThrows(landmarks) THEN "throw"
             ELSE LET near == IsHandNearFace(landmarks, bbox, margin)
                  IN  IF near = "throw" THEN "throw"
                      ELSE HandLoop(multiHandLandmarks, bbox, margin, h + 1,
                                    touchingNow \/ near = "true")

\* processFrame's outer loop (163-188) over detections from face f on.
RECURSIVE FaceLoop(_, _, _, _, _)
FaceLoop(detections, handResults, margin, f, touchingNow) ==
    IF f > Len(detections) THEN (IF touchingNow THEN "true" ELSE "false")
    ELSE IF handResults = Null
         THEN FaceLoop(detections, handResults, margin, f + 1, touchingNow)
         ELSE LET r == HandLoop(Val(handResults), detections[f].boundingBox,
                                margin, 1, touchingNow)
              IN  IF r = "throw" THEN "throw"
                  ELSE FaceLoop(detections, handResults, margin, f + 1, r = "true")

\* The touchingNow processFrame passes to updateTouchState (159-189), or
\* "throw" when the evaluation throws before reaching updateTouchState.
TouchingNow(faceResults, handResults, margin) ==
    IF faceResults = Null THEN "false"
    ELSE FaceLoop([f \in 1..Len(Val(faceResults)) |-> [boundingBox |-> Val(faceResults)[f]]],
                  handResults, margin, 1, FALSE)

--------------------------------------------------------------------------
\* The methods of HandsOff, as functions of the state they read and write.
\* A state s is a record of the fields below; s.exc says that an exception is
\* propagating (the statements after the throwing one are not executed).

\* The state of the touch state machine (spec 4.2) that the fields encode.
MachineState(s) ==
    IF ~s.isTouching THEN "CLEAR"
    ELSE IF s.alertActive THEN "ALERTING"
    ELSE "TOUCHING_BELOW_THRESHOLD"

\* What a handler started from: the machine state, whether an alarm timer was
\* live, the session's start time, the overlay and the status label.
Observed(s) ==
    [machine |-> MachineState(s), alarm |-> s.timers # {},
     touchStartTime |-> s.touchStartTime,
     overlayActive |-> s.overlayActive, statusText |-> s.statusText]

NotObserved ==
    [machine |-> "none", alarm |-> FALSE, touchStartTime |-> Null,
     overlayActive |-> FALSE, statusText |-> ""]

Cur ==
    [ touchThreshold |-> touchThreshold, proximityThreshold |-> proximityThreshold,
      enableSound |-> enableSound, isRunning |-> isRunning,
      touchStartTime |-> touchStartTime, isTouching |-> isTouching,
      alertActive |-> alertActive, camera |-> camera, hands |-> hands,
      faceDetection |-> faceDetection, lastHandResults |-> lastHandResults,
      lastFaceResults |-> lastFaceResults, audioContext |-> audioContext,
      alarmOscillator |-> alarmOscillator, alarmGain |-> alarmGain,
      alarmInterval |-> alarmInterval, overlayActive |-> overlayActive,
      statusText |-> statusText, statusDotTouching |-> statusDotTouching,
      durationText |-> durationText, startBtnDisabled |-> startBtnDisabled,
      stopBtnDisabled |-> stopBtnDisabled, srcObject |-> srcObject,
      timers |-> timers, gains |-> gains, orphaned |-> orphaned,
      startAlarmCalls |-> startAlarmCalls,
      touchingNowSeen |-> "none", tone |-> FALSE, exc |-> FALSE,
      before |-> NotObserved, probe |-> Null ]

\* The handler named op ends in state r.
Install(r, op) ==
    /\ touchThreshold' = r.touchThreshold
    /\ proximityThreshold' = r.proximityThreshold
    /\ enableSound' = r.enableSound
    /\ isRunning' = r.isRunning
    /\ touchStartTime' = r.touchStartTime
    /\ isTouching' = r.isTouching
    /\ alertActive' = r.alertActive
    /\ camera' = r.camera
    /\ hands' = r.hands
    /\ faceDetection' = r.faceDetection
    /\ lastHandResults' = r.lastHandResults
    /\ lastFaceResults' = r.lastFaceResults
    /\ audioContext' = r.audioContext
    /\ alarmOscillator' = r.alarmOscillator
    /\ alarmGain' = r.alarmGain
    /\ alarmInterval' = r.alarmInterval
    /\ overlayActive' = r.overlayActive
    /\ statusText' = r.statusText
    /\ statusDotTouching' = r.statusDotTouching
    /\ durationText' = r.durationText
    /\ startBtnDisabled' = r.startBtnDisabled
    /\ stopBtnDisabled' = r.stopBtnDisabled
    /\ srcObject' = r.srcObject
    /\ timers' = r.timers
    /\ gains' = r.gains
    /\ orphaned' = r.orphaned
    /\ startAlarmCalls' = r.startAlarmCalls
    /\ touchingNowSeen' = r.touchingNowSeen
    /\ tone' = r.tone
    /\ uncaught' = r.exc
    /\ before' = r.before
    /\ probe' = r.probe
    /\ lastOp' = op
    /\ lastInvoked' = IF op = "startClick" THEN "start"
                      ELSE IF op \in {"stop", "stopTwice"} THEN "stop"
                      ELSE lastInvoked

\* The smallest identifier no live timer and no connected gain node carries.
NewAlarmId(s) ==
    CHOOSE i \in 1..MaxAlarms :
        /\ i \notin s.timers \cup s.gains
        /\ \A j \in 1..MaxAlarms : j \notin s.timers \cup s.gains => i <= j

\* An identifier is left for one more alarm.
AlarmIdFree == \E i \in 1..MaxAlarms : i \notin timers \cup gains

\* updateStatus(text, isTouching)
UpdateStatus(s, text, touching) ==
    [s EXCEPT !.statusText = text, !.statusDotTouching = touching]

\* playBeep that connects its gain to the destination, not to alarmGain.
PlayBeepToDestination(s) ==
    IF ~s.enableSound \/ ~s.alertActive THEN s
    ELSE [s EXCEPT !.tone = TRUE]

\* playBeep (318-338): nothing unless sound is enabled and the alert is
\* active; gain.connect(this.alarmGain) throws when alarmGain is null;
\* otherwise one tone is started.
PlayBeep(s) ==
    IF ~s.enableSound \/ ~s.alertActive THEN s
    ELSE IF s.alarmGain = Null THEN [s EXCEPT !.exc = TRUE]
    ELSE [s EXCEPT !.tone = TRUE]

\* startAlarm()
StartAlarm(s) ==
    IF ~s.enableSound \/ s.alarmOscillator # Null THEN s
    ELSE IF s.audioContext = "null" THEN [s EXCEPT !.exc = TRUE]
    ELSE LET id == NewAlarmId(s)
             s1 == [s EXCEPT !.alarmGain = Some(id), !.gains = @ \cup {id}]
             s2 == PlayBeep(s1)
         IN  IF s2.exc THEN s2
             ELSE [s2 EXCEPT !.alarmInterval = Some(id), !.timers = @ \cup {id}]

\* stopAlarm() that drops the handle without clearInterval().
StopAlarmKeepsTimer(s) ==
    [s EXCEPT !.alarmInterval = Null,
              !.gains = IF s.alarmGain # Null THEN @ \ {Val(s.alarmGain)} ELSE @,
              !.alarmGain = Null,
              !.alarmOscillator = Null]

\* stopAlarm()
StopAlarm(s) ==
    LET s1 == IF s.alarmInterval # Null
              THEN [s EXCEPT !.timers = @ \ {Val(s.alarmInterval)},
                             !.alarmInterval = Null]
              ELSE s
        s2 == IF s1.alarmGain # Null
              THEN [s1 EXCEPT !.gains = @ \ {Val(s1.alarmGain)},
                              !.alarmGain = Null]
              ELSE s1
    IN  [s2 EXCEPT !.alarmOscillator = Null]

\* duration.toFixed(1): the duration rounded to tenths of a second. A
\* duration of whole seconds has the tenths digit 0.
ToFixed1(duration) == [seconds |-> duration, tenths |-> 0]

\* "Just started touching" (262-266). A new session has seen no startAlarm().
BeginTouch(s, currentTime) ==
    UpdateStatus([s EXCEPT !.touchStartTime = Some(currentTime),
                           !.isTouching = TRUE,
                           !.alertActive = FALSE,
                           !.startAlarmCalls = 0],
                 "TOUCHING", TRUE)

\* Line 271 with > for >=.
AlertDueStrict(s, duration) ==
    duration > s.touchThreshold /\ ~s.alertActive

\* The condition of line 271.
AlertDue(s, duration) ==
    duration >= s.touchThreshold /\ ~s.alertActive

\* "Still touching - check duration" (268-280)
ContinueTouch(s, currentTime) ==
    LET duration == currentTime - Val(s.touchStartTime)
        s1 == IF AlertDue(s, duration)
              THEN StartAlarm([s EXCEPT !.alertActive = TRUE,
                                        !.startAlarmCalls = @ + 1])
              ELSE s
    IN  IF s1.exc THEN s1
        ELSE IF s1.alertActive
        THEN [s1 EXCEPT !.overlayActive = TRUE,
                        !.durationText = Some(ToFixed1(duration))]
        ELSE s1

\* "Not touching" that leaves touchStartTime as it was.
EndTouchKeepsStart(s) ==
    LET s1 == IF s.isTouching THEN StopAlarm(s) ELSE s
    IN  UpdateStatus([s1 EXCEPT !.isTouching = FALSE,
                                !.alertActive = FALSE,
                                !.overlayActive = FALSE],
                     "Clear", FALSE)

\* "Not touching" without the stopAlarm() of line 287.
EndTouchLeavesAlarm(s) ==
    UpdateStatus([s EXCEPT !.isTouching = FALSE,
                           !.touchStartTime = Null,
                           !.alertActive = FALSE,
                           !.overlayActive = FALSE],
                 "Clear", FALSE)

\* "Not touching" (283-294)
EndTouch(s) ==
    LET s1 == IF s.isTouching THEN StopAlarm(s) ELSE s
    IN  UpdateStatus([s1 EXCEPT !.isTouching = FALSE,
                                !.touchStartTime = Null,
                                !.alertActive = FALSE,
                                !.overlayActive = FALSE],
                     "Clear", FALSE)

\* updateTouchState(touchingNow), with currentTime = Date.now() / 1000
UpdateTouchState(s, touchingNow, currentTime) ==
    IF touchingNow
    THEN IF ~s.isTouching
         THEN BeginTouch(s, currentTime)
         ELSE ContinueTouch(s, currentTime)
    ELSE EndTouch(s)

\* processFrame() without the test of isRunning (154).
ProcessFrameWhileStopped(s, currentTime) ==
    LET t == TouchingNow(s.lastFaceResults, s.lastHandResults,
                         s.proximityThreshold)
    IN  IF t = "throw" THEN [s EXCEPT !.exc = TRUE]
        ELSE UpdateTouchState([s EXCEPT !.touchingNowSeen = t],
                              t = "true", currentTime)

\* processFrame()
ProcessFrame(s, currentTime) ==
    IF ~s.isRunning THEN s
    ELSE LET t == TouchingNow(s.lastFaceResults, s.lastHandResults,
                              s.proximityThreshold)
         IN  IF t = "throw" THEN [s EXCEPT !.exc = TRUE]
             ELSE UpdateTouchState([s EXCEPT !.touchingNowSeen = t],
                                   t = "true", currentTime)

\* this.camera.stop() without the test of line 361: a TypeError on null.
StopCameraUnguarded(s) ==
    IF s.camera = "null" THEN [s EXCEPT !.exc = TRUE]
    ELSE [s EXCEPT !.camera = "stopped"]

\* "Stop camera" (361-363)
StopCamera(s) ==
    IF s.camera # "null" THEN [s EXCEPT !.camera = "stopped"] ELSE s

\* stop(). The tracks of video.srcObject are stopped before it is set to null.
Stop(s) ==
    LET s1 == StopCamera([s EXCEPT !.isRunning = FALSE])
        s2 == [s1 EXCEPT !.srcObject = IF @ # "null" THEN "null" ELSE @]
        s3 == StopAlarm(s2)
        s4 == [s3 EXCEPT !.hands = IF @ # "null" THEN "closed" ELSE @,
                         !.faceDetection = IF @ # "null" THEN "closed" ELSE @,
                         !.isTouching = FALSE,
                         !.touchStartTime = Null,
                         !.alertActive = FALSE,
                         !.overlayActive = FALSE,
                         !.startBtnDisabled = FALSE,
                         !.stopBtnDisabled = TRUE]
    IN  IF s1.exc THEN s1 ELSE UpdateStatus(s4, "Camera Off", FALSE)

\* initMediaPipe(): the constructors run in the order Hands, FaceDetection,
\* Camera; failAt names the one that throws ("none": none does). A reference
\* that is overwritten while its object is still active leaves that object
\* orphaned: nothing can stop or close it any more.
InitMediaPipe(s, failAt) ==
    IF failAt = "Hands" THEN [s EXCEPT !.exc = TRUE]
    ELSE LET s1 == [s EXCEPT !.hands = "open",
                             !.orphaned.detectors = @ \/ s.hands = "open"]
         IN  IF failAt = "FaceDetection" THEN [s1 EXCEPT !.exc = TRUE]
             ELSE LET s2 == [s1 EXCEPT !.faceDetection = "open",
                                       !.orphaned.detectors =
                                           @ \/ s.faceDetection = "open"]
                  IN  IF failAt = "Camera" THEN [s2 EXCEPT !.exc = TRUE]
                      ELSE [s2 EXCEPT !.camera = "running",
                                      !.orphaned.camera = @ \/ s.camera = "running"]

\* start() that sets isRunning before initMediaPipe() instead of after it.
StartRunsBeforeInit(s, failAt) ==
    LET s1 == InitMediaPipe([s EXCEPT !.isRunning = TRUE], failAt)
    IN  IF s1.exc THEN [s1 EXCEPT !.exc = FALSE]
        ELSE UpdateStatus([s1 EXCEPT !.startBtnDisabled = TRUE,
                                     !.stopBtnDisabled = FALSE],
                          "Clear", FALSE)

\* start() after `await this.video.play()` (85-96), or its catch block.
StartAfterPlay(s, failAt) ==
    LET s1 == InitMediaPipe(s, failAt)
    IN  IF s1.exc THEN [s1 EXCEPT !.exc = FALSE]
        ELSE UpdateStatus([s1 EXCEPT !.isRunning = TRUE,
                                     !.startBtnDisabled = TRUE,
                                     !.stopBtnDisabled = FALSE],
                          "Clear", FALSE)

--------------------------------------------------------------------------
\* The state after construction (constructor, 2-47). The texts and flags of
\* the DOM elements are those of the page's markup.

Init ==
    /\ touchThreshold = DefaultTouchThreshold
    /\ proximityThreshold = DefaultProximityThreshold
    /\ enableSound = TRUE
    /\ isRunning = FALSE
    /\ touchStartTime = Null
    /\ isTouching = FALSE
    /\ alertActive = FALSE
    /\ camera = "null"
    /\ hands = "null"
    /\ faceDetection = "null"
    /\ lastHandResults = Null
    /\ lastFaceResults = Null
    /\ audioContext = "null"
    /\ alarmOscillator = Null
    /\ alarmGain = Null
    /\ alarmInterval = Null
    /\ overlayActive = FALSE
    /\ statusText = ""
    /\ statusDotTouching = FALSE
    /\ durationText = Null
    /\ startBtnDisabled = FALSE
    /\ stopBtnDisabled = TRUE
    /\ srcObject = "null"
    /\ now = 0
    /\ timers = {}
    /\ gains = {}
    /\ pendingGetUserMedia = 0
    /\ pendingPlay = 0
    /\ orphaned = [stream |-> FALSE, camera |-> FALSE, detectors |-> FALSE]
    /\ audioAvailable \in BOOLEAN
    /\ lastOp = "constructor"
    /\ touchingNowSeen = "none"
    /\ tone = FALSE
    /\ uncaught = FALSE
    /\ startAlarmCalls = 0
    /\ before = NotObserved
    /\ probe = Null
    /\ lastInvoked = "none"

--------------------------------------------------------------------------
\* Handlers and callbacks. Each runs to completion (one logical thread).

\* soundToggle 'change' that only stores the flag.
SoundToggleNoStop(checked) ==
    /\ Install([Cur EXCEPT !.enableSound = checked, !.before = Observed(Cur)],
               "soundToggle")
    /\ UNCHANGED << now, pendingGetUserMedia, pendingPlay, audioAvailable >>

\* soundToggle 'change' that starts the alarm when sound is switched on
\* during an alert that has no alarm.
SoundToggleRestartsAlarm(checked) ==
    /\ LET s1 == [Cur EXCEPT !.enableSound = checked, !.before = Observed(Cur)]
       IN  Install(IF ~s1.enableSound THEN StopAlarm(s1)
                   ELSE IF s1.alertActive /\ s1.timers = {} THEN StartAlarm(s1)
                   ELSE s1,
                   "soundToggle")
    /\ UNCHANGED << now, pendingGetUserMedia, pendingPlay, audioAvailable >>

\* soundToggle 'change' (52-57)
SoundToggleChange(checked) ==
    /\ LET s1 == [Cur EXCEPT !.enableSound = checked, !.before = Observed(Cur)]
       IN  Install(IF ~s1.enableSound THEN StopAlarm(s1) ELSE s1, "soundToggle")
    /\ UNCHANGED << now, pendingGetUserMedia, pendingPlay, audioAvailable >>

\* thresholdSlider 'input' that restarts the timing of a running session.
ThresholdInputRestartsTiming(value) ==
    /\ Install([Cur EXCEPT !.touchThreshold = value,
                           !.touchStartTime = IF isTouching THEN Some(now) ELSE @],
               "thresholdInput")
    /\ UNCHANGED << now, pendingGetUserMedia, pendingPlay, audioAvailable >>

\* thresholdSlider 'input' (58-61)
ThresholdInput(value) ==
    /\ Install([Cur EXCEPT !.touchThreshold = value], "thresholdInput")
    /\ UNCHANGED << now, pendingGetUserMedia, pendingPlay, audioAvailable >>

\* sensitivitySlider 'input' (62-68)
SensitivityInput(value) ==
    /\ Install([Cur EXCEPT !.proximityThreshold = SensitivityThresholds[value]],
               "sensitivityInput")
    /\ UNCHANGED << now, pendingGetUserMedia, pendingPlay, audioAvailable >>

\* hands.onResults callback (119-122). Results are delivered once a camera
\* feeds the detector; a result in flight can still arrive after stop().
HandsOnResults(results) ==
    /\ hands # "null" /\ camera # "null"
    /\ AlarmIdFree
    /\ Install(ProcessFrame([Cur EXCEPT !.lastHandResults = Some(results),
                                        !.before = Observed(Cur)], now),
               "handsOnResults")
    /\ UNCHANGED << now, pendingGetUserMedia, pendingPlay, audioAvailable >>

\* faceDetection.onResults that evaluates the frame as hands.onResults does.
FaceOnResultsEvaluates(results) ==
    /\ faceDetection # "null" /\ camera # "null"
    /\ AlarmIdFree
    /\ Install(ProcessFrame([Cur EXCEPT !.lastFaceResults = Some(results)], now),
               "faceOnResults")
    /\ UNCHANGED << now, pendingGetUserMedia, pendingPlay, audioAvailable >>

\* faceDetection.onResults callback (136-138)
FaceOnResults(results) ==
    /\ faceDetection # "null" /\ camera # "null"
    /\ Install([Cur EXCEPT !.lastFaceResults = Some(results)], "faceOnResults")
    /\ UNCHANGED << now, pendingGetUserMedia, pendingPlay, audioAvailable >>

\* A live interval timer fires: setInterval(playBeep, 300) (342)
AlarmTimerFire(id) ==
    /\ id \in timers
    /\ Install(PlayBeep(Cur), "playBeep")
    /\ UNCHANGED << now, pendingGetUserMedia, pendingPlay, audioAvailable >>

\* start() up to `await getUserMedia` (72-80). Constructing the AudioContext
\* throws where there is none; the catch block (98-101) reports and start()
\* ends.
StartToGetUserMedia ==
    /\ IF audioAvailable
       THEN /\ Install([Cur EXCEPT !.audioContext = "running"], "startClick")
            /\ pendingGetUserMedia' = pendingGetUserMedia + 1
       ELSE /\ Install(Cur, "startClick")
            /\ pendingGetUserMedia' = pendingGetUserMedia
    /\ UNCHANGED << now, pendingPlay, audioAvailable >>

\* startBtn 'click' while no start() is suspended at an await
StartClick ==
    /\ ~startBtnDisabled
    /\ pendingGetUserMedia + pendingPlay = 0
    /\ StartToGetUserMedia

\* startBtn 'click' while an earlier start() is still suspended at an await
\* (the button is disabled only when a start() completes, 94)
StartClickAgain ==
    /\ ~startBtnDisabled
    /\ pendingGetUserMedia + pendingPlay > 0
    /\ pendingGetUserMedia + pendingPlay < MaxPending
    /\ StartToGetUserMedia

\* getUserMedia resolves: start() up to `await this.video.play()` (82-83)
GetUserMediaResolve ==
    /\ pendingGetUserMedia > 0
    /\ Install([Cur EXCEPT !.srcObject = "live",
                           !.orphaned.stream = @ \/ srcObject = "live"],
               "gotStream")
    /\ pendingGetUserMedia' = pendingGetUserMedia - 1
    /\ pendingPlay' = pendingPlay + 1
    /\ UNCHANGED << now, audioAvailable >>

\* getUserMedia rejects: the catch block (98-101)
GetUserMediaReject ==
    /\ pendingGetUserMedia > 0
    /\ Install(Cur, "startCatch")
    /\ pendingGetUserMedia' = pendingGetUserMedia - 1
    /\ UNCHANGED << now, pendingPlay, audioAvailable >>

\* video.play() resolves: the rest of start() (85-96), initMediaPipe
\* included, or the catch block when a constructor throws.
PlayResolve(failAt) ==
    /\ pendingPlay > 0
    /\ srcObject = "live"
    /\ Install(StartAfterPlay(Cur, failAt),
               IF failAt = "none" THEN "started" ELSE "startCatch")
    /\ pendingPlay' = pendingPlay - 1
    /\ UNCHANGED << now, pendingGetUserMedia, audioAvailable >>

\* video.play() rejects: the catch block (98-101)
PlayReject ==
    /\ pendingPlay > 0
    /\ Install(Cur, "startCatch")
    /\ pendingPlay' = pendingPlay - 1
    /\ UNCHANGED << now, pendingGetUserMedia, audioAvailable >>

\* stop() (357-395), from the stop button or called directly
StopCall ==
    /\ Install(Stop([Cur EXCEPT !.before = Observed(Cur)]), "stop")
    /\ UNCHANGED << now, pendingGetUserMedia, pendingPlay, audioAvailable >>

\* stop() called twice in a row
StopTwice ==
    /\ Install(Stop(Stop([Cur EXCEPT !.before = Observed(Cur)])), "stopTwice")
    /\ UNCHANGED << now, pendingGetUserMedia, pendingPlay, audioAvailable >>

\* A second passes (Date.now()).
Tick ==
    /\ now < MaxTime
    /\ now' = now + 1
    /\ Install(Cur, "tick")
    /\ UNCHANGED << pendingGetUserMedia, pendingPlay, audioAvailable >>

Next ==
    \/ \E checked \in BOOLEAN : SoundToggleChange(checked)
    \/ \E value \in ThresholdValues : ThresholdInput(value)
    \/ \E value \in 1..3 : SensitivityInput(value)
    \/ \E results \in HandArrivals : HandsOnResults(results)
    \/ \E results \in FaceArrivals : FaceOnResults(results)
    \/ \E id \in 1..MaxAlarms : AlarmTimerFire(id)
    \/ StartClick
    \/ GetUserMediaResolve
    \/ GetUserMediaReject
    \/ \E failAt \in {"none", "Hands"} : PlayResolve(failAt)
    \/ PlayReject
    \/ StopCall
    \/ Tick

\* The monitor as its user drives it: Start is clicked only while no start()
\* is in flight, and of the detector constructors only the first can fail.
Spec == Init /\ [][Next]_vars

\* The lifecycle in full: Start clicked again during a start(), every
\* constructor of initMediaPipe able to throw, stop() called twice in a row;
\* one hand result and one face result, settings left as constructed.
NextLifecycle ==
    \/ \E results \in {<< >>, << TipNearA >>} : HandsOnResults(results)
    \/ FaceOnResults(<< FaceA >>)
    \/ \E id \in 1..MaxAlarms : AlarmTimerFire(id)
    \/ StartClick
    \/ StartClickAgain
    \/ GetUserMediaResolve
    \/ GetUserMediaReject
    \/ \E failAt \in SetupFailures : PlayResolve(failAt)
    \/ PlayReject
    \/ StopCall
    \/ StopTwice
    \/ Tick

SpecLifecycle == Init /\ [][NextLifecycle]_vars

\* isHandNearFace(landmarks, faceBbox) called directly, as a method; it reads
\* this.proximityThreshold and writes nothing.
CallIsHandNearFace(landmarks, faceBbox) ==
    /\ LET near == IsHandNearFace(landmarks, faceBbox, proximityThreshold)
       IN  Install([Cur EXCEPT !.probe = Some([landmarks |-> landmarks,
                                               faceBbox |-> faceBbox,
                                               near |-> near]),
                               !.exc = (near = "throw")],
                   "isHandNearFace")
    /\ UNCHANGED << now, pendingGetUserMedia, pendingPlay, audioAvailable >>

\* The state after construction, with this.proximityThreshold set to one of
\* the margins the geometry is examined with.
InitGeometry ==
    /\ touchThreshold = DefaultTouchThreshold
    /\ proximityThreshold \in Margins
    /\ enableSound = TRUE
    /\ isRunning = FALSE
    /\ touchStartTime = Null
    /\ isTouching = FALSE
    /\ alertActive = FALSE
    /\ camera = "null"
    /\ hands = "null"
    /\ faceDetection = "null"
    /\ lastHandResults = Null
    /\ lastFaceResults = Null
    /\ audioContext = "null"
    /\ alarmOscillator = Null
    /\ alarmGain = Null
    /\ alarmInterval = Null
    /\ overlayActive = FALSE
    /\ statusText = ""
    /\ statusDotTouching = FALSE
    /\ durationText = Null
    /\ startBtnDisabled = FALSE
    /\ stopBtnDisabled = TRUE
    /\ srcObject = "null"
    /\ now = 0
    /\ timers = {}
    /\ gains = {}
    /\ pendingGetUserMedia = 0
    /\ pendingPlay = 0
    /\ orphaned = [stream |-> FALSE, camera |-> FALSE, detectors |-> FALSE]
    /\ audioAvailable = TRUE
    /\ lastOp = "constructor"
    /\ touchingNowSeen = "none"
    /\ tone = FALSE
    /\ uncaught = FALSE
    /\ startAlarmCalls = 0
    /\ before = NotObserved
    /\ probe = Null
    /\ lastInvoked = "none"

\* The geometry: isHandNearFace called on its own, and evaluations of a
\* started system over results of several hands and faces.
NextGeometry ==
    \/ \E landmarks \in ProbeHands, faceBbox \in ProbeFaces :
           CallIsHandNearFace(landmarks, faceBbox)
    \/ \E results \in GeometryHandArrivals : HandsOnResults(results)
    \/ \E results \in GeometryFaceArrivals : FaceOnResults(results)
    \/ StartClick
    \/ GetUserMediaResolve
    \/ PlayResolve("none")

SpecGeometry == InitGeometry /\ [][NextGeometry]_vars

\* startAlarm() called directly, as a method of the controller
CallStartAlarm ==
    /\ AlarmIdFree
    /\ Install(StartAlarm(Cur), "startAlarm")
    /\ UNCHANGED << now, pendingGetUserMedia, pendingPlay, audioAvailable >>

\* stopAlarm() called directly; before keeps what it started from
CallStopAlarm ==
    /\ Install(StopAlarm([Cur EXCEPT !.before = Observed(Cur)]), "stopAlarm")
    /\ UNCHANGED << now, pendingGetUserMedia, pendingPlay, audioAvailable >>

\* The system clock is set back: Date.now() returns less than before.
ClockBack ==
    /\ now > 0
    /\ now' \in 0..(now - 1)
    /\ Install(Cur, "clockBack")
    /\ UNCHANGED << pendingGetUserMedia, pendingPlay, audioAvailable >>

\* A started system watched while its clock runs forward and is set back.
NextClock ==
    \/ \E results \in {<< >>, << TipNearA >>} : HandsOnResults(results)
    \/ FaceOnResults(<< FaceA >>)
    \/ \E id \in 1..MaxAlarms : AlarmTimerFire(id)
    \/ StartClick
    \/ GetUserMediaResolve
    \/ PlayResolve("none")
    \/ StopCall
    \/ Tick
    \/ ClockBack

SpecClock == Init /\ [][NextClock]_vars

\* The alarm controller driven through its two methods, on a started system.
NextAlarm ==
    \/ CallStartAlarm
    \/ CallStopAlarm
    \/ \E id \in 1..MaxAlarms : AlarmTimerFire(id)
    \/ \E checked \in BOOLEAN : SoundToggleChange(checked)
    \/ \E results \in {<< >>, << TipNearA >>} : HandsOnResults(results)
    \/ FaceOnResults(<< FaceA >>)
    \/ StartClick
    \/ GetUserMediaResolve
    \/ PlayResolve("none")
    \/ StopCall
    \/ Tick

SpecAlarm == Init /\ [][NextAlarm]_vars

--------------------------------------------------------------------------
\* Properties.

\* The last handler was an evaluation that reached updateTouchState(t).
Evaluated(t) == lastOp = "handsOnResults" /\ touchingNowSeen = t

\* The elapsed time of the session the last handler started from.
ElapsedBefore == now - Val(before.touchStartTime)

\* C1. While touching continues, the alert is entered exactly once: an
\* evaluation with touchingNow = true that continues a session ends with
\* alertActive set exactly when it was set before or the elapsed time has
\* reached the threshold (so at the first such evaluation and at no earlier
\* one), and in a session startAlarm() has been invoked once when the alert is
\* active and never when it is not.
C1_AlertEnteredOnce ==
    /\ (Evaluated("true") /\ before.machine # "CLEAR")
         => (alertActive <=> (before.machine = "ALERTING"
                               \/ ElapsedBefore >= touchThreshold))
    /\ isTouching => startAlarmCalls = (IF alertActive THEN 1 ELSE 0)

\* C1 happens: an evaluation of a session that was already alerting, its alarm
\* running, and startAlarm() has still been invoked once.
C1_Witness ==
    /\ Evaluated("true")
    /\ before.machine = "ALERTING" /\ before.alarm
    /\ alertActive /\ timers # {} /\ startAlarmCalls = 1

\* C2. A gap resets the elapsed time: no start time outlives its session, and
\* the evaluation with touchingNow = true that follows a gap records its own
\* time as touchStartTime and leaves alertActive clear.
C2_GapResetsElapsed ==
    /\ ~isTouching => touchStartTime = Null
    /\ (Evaluated("true") /\ before.machine = "CLEAR")
         => /\ isTouching
            /\ touchStartTime = Some(now)
            /\ ~alertActive

\* C2 happens: a new session begins after an earlier one had alerted.
C2_Witness ==
    /\ Evaluated("true") /\ before.machine = "CLEAR"
    /\ durationText # Null
    /\ now > 0 /\ touchStartTime = Some(now)

\* C3. After an evaluation with touchingNow = false the machine is CLEAR, no
\* alarm timer runs, no tone was played, the overlay is inactive and the
\* status is "Clear".
C3_ClearAfterRelease ==
    Evaluated("false")
      => /\ ~isTouching
         /\ touchStartTime = Null
         /\ ~alertActive
         /\ timers = {} /\ alarmInterval = Null
         /\ ~tone
         /\ ~overlayActive
         /\ statusText = "Clear"

\* C3 happens: the hands leave the face while the alarm is sounding.
C3_Witness ==
    /\ Evaluated("false")
    /\ before.machine = "ALERTING" /\ before.alarm

\* C4. The alarm controller is idempotent: after a startAlarm() that returned
\* with sound enabled exactly one interval timer is live, and a stopAlarm()
\* while no alarm was running leaves no timer, no gain node and no handle.
C4_AlarmIdempotent ==
    /\ (lastOp = "startAlarm" /\ enableSound /\ ~uncaught)
         => Cardinality(timers) = 1
    /\ (lastOp = "stopAlarm" /\ ~before.alarm)
         => timers = {} /\ gains = {} /\ alarmInterval = Null /\ alarmGain = Null

\* C5. Switching sound off while alerting stops the alarm in that handler (no
\* timer is left, no tone is played: with sound off there is never a timer or
\* a tone) and leaves the visual alert as it was: alertActive, isTouching,
\* touchStartTime, the overlay and the status label.
C5_SoundOffKeepsVisualAlert ==
    /\ ~enableSound => timers = {} /\ ~tone
    /\ (lastOp = "soundToggle" /\ ~enableSound /\ before.machine = "ALERTING")
         => /\ alarmInterval = Null /\ alarmGain = Null
            /\ alertActive /\ isTouching
            /\ touchStartTime = before.touchStartTime
            /\ overlayActive = before.overlayActive
            /\ statusText = before.statusText

\* C5 happens: sound is switched off while the alarm is sounding.
C5_Witness ==
    /\ lastOp = "soundToggle" /\ ~enableSound
    /\ before.machine = "ALERTING" /\ before.alarm
    /\ overlayActive /\ statusText = "TOUCHING"

\* C6 as claimed: at most one alarm timer is live, and a live timer implies
\* an active session that is alerting with elapsed >= the configured
\* touchThreshold.
C6_TimerImpliesPastConfiguredThreshold ==
    /\ Cardinality(timers) <= 1
    /\ timers # {}
         => /\ isTouching /\ alertActive
            /\ now - Val(touchStartTime) >= touchThreshold

\* C6 amended: at most one alarm timer is live, it is the one alarmInterval
\* holds, and a live timer implies an active session that is alerting; a
\* timer is started only by an evaluation of a session below the threshold
\* whose elapsed time has reached the touchThreshold configured then.
C6_TimerImpliesAlerting ==
    /\ Cardinality(timers) <= 1
    /\ timers # {}
         => /\ isTouching /\ alertActive
            /\ timers = {Val(alarmInterval)}
    /\ (timers # {} /\ before # NotObserved /\ ~before.alarm)
         => /\ Evaluated("true")
            /\ before.machine = "TOUCHING_BELOW_THRESHOLD"
            /\ ElapsedBefore >= touchThreshold

\* C6 happens where the amendment matters: the alarm timer is live while the
\* elapsed time is below the threshold now configured.
C6_Witness ==
    /\ timers # {}
    /\ now - Val(touchStartTime) < touchThreshold

\* C7. After stop() of a system that had started (and with no start() in
\* flight): no alarm timer, the audio context released, the camera stream
\* released, no camera running, both detectors closed, the machine CLEAR with
\* the overlay inactive, and not running.
C7_StopReleasesEverything ==
    (/\ lastOp \in {"stop", "stopTwice"}
     /\ camera # "null"
     /\ pendingGetUserMedia + pendingPlay = 0)
      => /\ timers = {} /\ gains = {}
         /\ audioContext # "running"
         /\ srcObject = "null" /\ ~orphaned.stream
         /\ camera # "running" /\ ~orphaned.camera
         /\ hands # "open" /\ faceDetection # "open" /\ ~orphaned.detectors
         /\ ~isTouching /\ touchStartTime = Null /\ ~alertActive
         /\ ~overlayActive
         /\ ~isRunning

\* C8. stop() is idempotent and safe whatever start() did before: a second
\* stop() leaves what the first one left, and after stop() (once or twice) no
\* exception has escaped, the system is not running, the machine is CLEAR,
\* no alarm is live and the status is "Camera Off".
C8_StopIdempotent ==
    /\ Stop(Stop(Cur)) = Stop(Cur)
    /\ lastOp \in {"stop", "stopTwice"}
         => /\ ~uncaught
            /\ ~isRunning
            /\ ~isTouching /\ touchStartTime = Null /\ ~alertActive
            /\ ~overlayActive
            /\ timers = {} /\ alarmInterval = Null
            /\ statusText = "Camera Off"

\* C8 happens: stop() twice after a start() that failed in initMediaPipe, at
\* a constructor after Hands (no camera was ever created).
C8_Witness ==
    /\ lastOp = "stopTwice"
    /\ camera = "null" /\ hands = "closed"
    /\ pendingGetUserMedia + pendingPlay = 0

\* C9. Where no AudioContext can be constructed the system still starts: the
\* start() of a click goes on to acquire the camera.
C9_StartsWithoutAudio ==
    (lastOp = "startClick" /\ ~audioAvailable) => pendingGetUserMedia > 0

\* C10. No failure of a per-frame evaluation leaves the hand-result callback.
C10_EvaluationFailureCaught ==
    lastOp = "handsOnResults" => ~uncaught

\* The step is the end of a start() that failed: its catch block (98-101) ran,
\* after the AudioContext constructor, getUserMedia, video.play() or a
\* constructor of initMediaPipe.
FailedStartStep ==
    \/ lastOp' = "startCatch"
    \/ lastOp' = "startClick" /\ ~audioAvailable

\* The fields of the touch session, the alarm and the status outputs.
sessionVars ==
    << isTouching, touchStartTime, alertActive, timers, alarmInterval,
       overlayActive, statusText, statusDotTouching >>

\* C11. A start() that fails leaves the system as it was before start(): the
\* failing step changes neither isRunning, nor the touch session and alarm,
\* nor the two buttons; a system that was not running is then still not
\* running, CLEAR, without alarm timer, with Start enabled and Stop disabled;
\* and a hand result that arrives while the system is not running changes
\* neither the touch session, the alarm, nor the status outputs.
C11_FailedStartStaysPreStart ==
    [][ /\ FailedStartStep
          => /\ UNCHANGED << isRunning, sessionVars, startBtnDisabled, stopBtnDisabled >>
             /\ ~isRunning
                  => /\ ~isRunning' /\ ~isTouching' /\ ~alertActive'
                     /\ timers' = {}
                     /\ ~startBtnDisabled' /\ stopBtnDisabled'
        /\ (lastOp' = "handsOnResults" /\ ~isRunning)
          => UNCHANGED << isRunning, sessionVars >>
      ]_vars

\* C11 happens: after a session was stopped, a start() failed at the
\* FaceDetection constructor (a new Hands is open, the old FaceDetection is
\* closed), and then a hand result near the cached face arrived.
C11_Witness ==
    /\ lastOp = "handsOnResults"
    /\ ~isRunning /\ ~isTouching
    /\ hands = "open" /\ faceDetection = "closed" /\ camera = "stopped"
    /\ lastHandResults = Some(<< TipNearA >>)
    /\ lastFaceResults = Some(<< FaceA >>)

\* Hand h of the cached hand result is near face f of the cached face result.
NearCached(h, f) ==
    IsHandNearFace(Val(lastHandResults)[h], Val(lastFaceResults)[f],
                   proximityThreshold) = "true"

\* C12. An evaluation computes touchingNow against the first detected face
\* only: touchingNow is true exactly when a face is cached and some hand of
\* the cached hand result is near the first face.
C12_FirstFaceOnly ==
    (lastOp = "handsOnResults" /\ touchingNowSeen \in {"true", "false"})
      => (touchingNowSeen = "true"
            <=> /\ lastFaceResults # Null /\ Len(Val(lastFaceResults)) >= 1
                /\ \E h \in 1..Len(Val(lastHandResults)) : NearCached(h, 1))

\* The point lies in the face box expanded by margin on all four sides, its
\* bounds included (the boxes used have even widths and heights).
InExpandedBox(point, faceBbox, margin) ==
    /\ point.x >= faceBbox.xCenter - (faceBbox.width \div 2) - margin
    /\ point.x <= faceBbox.xCenter + (faceBbox.width \div 2) + margin
    /\ point.y >= faceBbox.yCenter - (faceBbox.height \div 2) - margin
    /\ point.y <= faceBbox.yCenter + (faceBbox.height \div 2) + margin

\* The point lies on the boundary of the face box itself.
OnBoxEdge(point, faceBbox) ==
    /\ InExpandedBox(point, faceBbox, 0)
    /\ \/ point.x = faceBbox.xCenter - (faceBbox.width \div 2)
       \/ point.x = faceBbox.xCenter + (faceBbox.width \div 2)
       \/ point.y = faceBbox.yCenter - (faceBbox.height \div 2)
       \/ point.y = faceBbox.yCenter + (faceBbox.height \div 2)

\* The landmark set with every landmark that is not a key point moved to q.
WithOtherPointsAt(handLandmarks, q) ==
    [i \in DOMAIN handLandmarks |->
        IF \E k \in 1..Len(KeyPoints) : KeyPoints[k] = i
        THEN handLandmarks[i] ELSE q]

\* C13. isHandNearFace returns true exactly when one of the landmarks 0, 4,
\* 8, 12, 16, 20 lies in the face box expanded by the margin, bounds
\* included; for a set of 21 landmarks it returns true or false, and moving
\* the other landmarks anywhere does not change the result; with the margin
\* 0 a key point on the edge of the face box gives true.
C13_NearIffKeyPointInside ==
    lastOp = "isHandNearFace"
      => LET p == Val(probe)
             keys == {0, 4, 8, 12, 16, 20} \cap DOMAIN p.landmarks
         IN  /\ p.near = "true"
                  <=> \E i \in keys :
                         InExpandedBox(p.landmarks[i], p.faceBbox, proximityThreshold)
             /\ DOMAIN p.landmarks = 0..LastLandmark
                  => /\ p.near \in {"true", "false"}
                     /\ \A q \in ProbePoints :
                            IsHandNearFace(WithOtherPointsAt(p.landmarks, q),
                                           p.faceBbox, proximityThreshold) = p.near
             /\ (/\ proximityThreshold = 0
                 /\ \E i \in keys : OnBoxEdge(p.landmarks[i], p.faceBbox))
                  => p.near = "true"

\* C13 happens: with the margin 0, the tip of the little finger on the right
\* edge of face A, isHandNearFace returned true.
C13_Witness ==
    /\ lastOp = "isHandNearFace"
    /\ proximityThreshold = 0
    /\ probe = Some([landmarks |-> HandWith(21, 20, Pt(60, 45)),
                     faceBbox |-> FaceA, near |-> "true"])

\* C14. Only a hand arrival evaluates. The arrival of a face result stores a
\* face result and changes neither the touch session, the alarm, the status
\* outputs nor the duration text; a hand arrival leaves the cached face result
\* as it is, and the touchingNow of its evaluation is the one computed from
\* that cached face result and the hand result that arrived.
C14_OnlyHandArrivalEvaluates ==
    [][ /\ touchingNowSeen' # "none" => lastOp' = "handsOnResults"
        /\ lastOp' = "faceOnResults"
             => /\ lastFaceResults' # Null
                /\ touchingNowSeen' = "none"
                /\ UNCHANGED << isRunning, sessionVars, durationText, gains,
                                lastHandResults >>
        /\ lastOp' = "handsOnResults"
             => /\ lastFaceResults' = lastFaceResults
                /\ touchingNowSeen' # "none"
                     => touchingNowSeen' = TouchingNow(lastFaceResults, lastHandResults',
                                                       proximityThreshold)
      ]_vars

\* C14 happens: a face result without detections arrives while the alarm is
\* sounding; the alert and the alarm stay.
C14_Witness ==
    /\ lastOp = "faceOnResults"
    /\ lastFaceResults = Some(<< >>)
    /\ lastHandResults = Some(<< TipNearA >>)
    /\ alertActive /\ timers # {} /\ overlayActive /\ statusText = "TOUCHING"

\* C15. A change of the touch threshold changes neither the touch session
\* (touchStartTime, isTouching, alertActive), the alarm nor the outputs. The
\* evaluation that continues a session below the threshold keeps its
\* touchStartTime and enters the alert exactly when the time elapsed since
\* that touchStartTime has reached the threshold configured at that
\* evaluation; the evaluation that continues an alerting session leaves it
\* alerting, whatever the threshold.
C15_ThresholdChangeKeepsSession ==
    [][ /\ lastOp' = "thresholdInput"
             => UNCHANGED << isRunning, sessionVars, durationText, gains >>
        /\ (lastOp' = "handsOnResults" /\ touchingNowSeen' = "true" /\ isTouching)
             => /\ touchStartTime' = touchStartTime
                /\ alertActive'
                     <=> (alertActive \/ now - Val(touchStartTime) >= touchThreshold)
      ]_vars

\* C15 happens: the threshold is raised to 2 s in a session that alerts at an
\* elapsed time of 1 s, alarm running; the session stays alerting.
C15_Witness ==
    /\ lastOp = "thresholdInput"
    /\ touchThreshold = 2
    /\ alertActive /\ timers # {}
    /\ now - Val(touchStartTime) = 1

\* The last handler called stopAlarm() and no startAlarm() after it: an
\* evaluation that ended a session, the sound toggle switched off, stop(), or
\* stopAlarm() itself.
StopAlarmReturned ==
    \/ Evaluated("false") /\ before.machine # "CLEAR"
    \/ lastOp = "soundToggle" /\ ~enableSound
    \/ lastOp \in {"stop", "stopAlarm"}

\* C16. Once stopAlarm() has returned no timer callback plays a tone until a
\* startAlarm() begins a new alarm: stopAlarm() leaves neither the timer
\* handle nor the master gain (which only startAlarm() sets), the handler
\* that called it played no tone, and a timer callback plays a tone only
\* while the master gain of a begun alarm is set.
C16_NoToneAfterStopAlarm ==
    /\ StopAlarmReturned
         => alarmInterval = Null /\ alarmGain = Null /\ ~tone
    /\ (lastOp = "playBeep" /\ tone)
         => alarmGain # Null /\ enableSound /\ alertActive
    /\ (lastOp = "playBeep" /\ alarmGain = Null) => ~tone

\* C16 happens: a timer is still live after stopAlarm() returned (its handle
\* had been overwritten by a second startAlarm()), its callback runs with
\* sound enabled and the alert active, and no tone is played.
C16_Witness ==
    /\ lastOp = "playBeep"
    /\ alarmInterval = Null /\ alarmGain = Null
    /\ timers # {}
    /\ enableSound /\ alertActive
    /\ ~tone

\* C17. An evaluation of a session whose touchStartTime is later than the
\* clock value it reads ends without error, and the duration it displays
\* while alerting is at least 0.
C17_BackwardClockClamped ==
    (/\ lastOp = "handsOnResults"
     /\ before.touchStartTime # Null
     /\ now < Val(before.touchStartTime))
      => /\ ~uncaught
         /\ (touchingNowSeen = "true" /\ alertActive)
              => Val(durationText).seconds >= 0

\* C18. An alarm timer is started only by the evaluation that takes a session
\* from below the threshold into the alert, and only with sound enabled
\* then; while a session stays alerting without an alarm timer, no step
\* starts one, whatever the sound flag becomes.
C18_AlarmStartsOnlyAtCrossing ==
    [][ /\ (timers = {} /\ timers' # {})
             => /\ lastOp' = "handsOnResults" /\ touchingNowSeen' = "true"
                /\ isTouching /\ ~alertActive /\ alertActive'
                /\ now - Val(touchStartTime) >= touchThreshold
                /\ enableSound
        /\ (alertActive /\ alertActive' /\ timers = {}) => timers' = {}
      ]_vars

\* C18 happens: an evaluation continues a session that alerts without alarm;
\* sound is enabled, touching continues, and still no alarm timer runs.
C18_Witness ==
    /\ Evaluated("true")
    /\ before.machine = "ALERTING" /\ ~before.alarm
    /\ enableSound
    /\ alertActive /\ timers = {}

\* C19. Between callbacks the session fields are consistent: touchStartTime
\* is set exactly when isTouching; alertActive implies isTouching; the alert
\* overlay is active exactly when alertActive; isTouching or alertActive
\* implies isRunning; and a hand result that arrived while the system was not
\* running evaluated nothing and left the machine, the session's start time,
\* the alarm, the overlay and the status as they were.
C19_SessionFieldsConsistent ==
    /\ touchStartTime # Null <=> isTouching
    /\ alertActive => isTouching
    /\ overlayActive <=> alertActive
    /\ (isTouching \/ alertActive) => isRunning
    /\ (lastOp = "handsOnResults" /\ ~isRunning)
         => /\ touchingNowSeen = "none"
            /\ MachineState(Cur) = "CLEAR" /\ before.machine = "CLEAR"
            /\ touchStartTime = before.touchStartTime
            /\ (timers # {}) = before.alarm
            /\ overlayActive = before.overlayActive
            /\ statusText = before.statusText

\* C19 happens: after a session that had alerted was stopped, a hand result
\* near the cached face arrives; nothing of the session changes.
C19_Witness ==
    /\ lastOp = "handsOnResults"
    /\ ~isRunning /\ hands = "closed" /\ camera = "stopped"
    /\ lastHandResults = Some(<< TipNearA >>)
    /\ lastFaceResults = Some(<< FaceA >>)
    /\ durationText # Null
    /\ statusText = "Camera Off"

\* C20. Once no start() is suspended at an await and the last invocation was
\* a stop(): the system is not running, and every camera, video stream and
\* detector that a start() created is stopped or closed (none runs or is
\* open, in a field or overwritten).
C20_StopAfterInterleavedStart ==
    (pendingGetUserMedia + pendingPlay = 0 /\ lastInvoked = "stop")
      => /\ ~isRunning
         /\ camera # "running" /\ ~orphaned.camera
         /\ srcObject # "live" /\ ~orphaned.stream
         /\ hands # "open" /\ faceDetection # "open" /\ ~orphaned.detectors

====
